---- MODULE Spec2Model ----
(***************************************************************************)
(* KAMREEN timer engine (later revision, src/unnamed/part_001).            *)
(*                                                                         *)
(* The engine is a React component.  Its state lives in five useState      *)
(* cells; handlers and effects are closures over the values of the last    *)
(* render, while functional updaters (setX(prev => ...)) act on the        *)
(* latest value.  The model keeps both:                                    *)
(*   globalElapsed, globalRunning, counters, isHydrated, filterStartEvents *)
(*       the latest value of each cell (every queued update applied);      *)
(*   view  the values captured by the last committed render, which is what *)
(*       handleToggleCounter / handleActivateGlobal and the effects read.  *)
(* Render commits the latest values and runs the effects whose             *)
(* dependencies changed, in declaration order.                             *)
(***************************************************************************)
EXTENDS Integers, Sequences, FiniteSets, TLC

VARIABLES
    globalElapsed,      \* useState(0), part_001:59
    globalRunning,      \* useState(false), part_001:60
    counters,           \* useState(createInitialCounters), part_001:61
    isHydrated,         \* useState(false), part_001:64
    filterStartEvents,  \* useState(0), part_001:65
    view,               \* values captured by the last render
    stale,              \* events handled since the last render
    store,              \* AsyncStorage content under STORAGE_KEY
    now,                \* Date.now()
    activatePrompt,     \* "Activation" dialog open
    resetPrompt,        \* "Remise a zero" dialog open
    alarmDialog,        \* "KAMREEN" alarm dialog open (unacknowledged)
    filterDialog,       \* "Filtration" dialog open (unacknowledged)
    fx,                 \* dispatcher / storage calls issued by the last step
    device,             \* how the sound and vibration calls of this run end
    writes,             \* AsyncStorage.setItem calls issued and not completed
    audio               \* alarmSoundRef, filterSoundRef, the sounds, the sound calls in flight

vars == <<globalElapsed, globalRunning, counters, isHydrated, filterStartEvents,
          view, stale, store, now, activatePrompt, resetPrompt,
          alarmDialog, filterDialog, fx, device, writes, audio>>

engine == <<globalElapsed, globalRunning, counters, isHydrated, filterStartEvents>>

---------------------------------------------------------------------------
(* Program constants and model bounds *)

COUNTER_COUNT == 5

\* 4 * 60 * 60 in the source ("adjust this value ... to test"); scaled.
GLOBAL_ALARM_INTERVAL_SECONDS == 3

FILTER_RESUME_DELAY_MS == 30000

\* The clock advances in steps of half the resume delay, so that pauses of
\* less than, exactly and more than 30000 ms all occur.
CLOCK_STEP_MS == FILTER_RESUME_DELAY_MS \div 2

BootTime == 4 * FILTER_RESUME_DELAY_MS

MaxClockSteps == 2

\* Events handled between two renders at most.  With 1 a handler reads a
\* snapshot older than the latest values only right after the alarm effect's
\* own update; from 2 on it also reads one that an earlier event has outdated.
\* A render is never delayed for a whole alarm interval (MaxStale is below
\* GLOBAL_ALARM_INTERVAL_SECONDS).
MaxStale == 1
\* presses of one toggle button handled before the screen re-renders
StaleToggles == 2
\* timer callbacks and intents handled before the effects of the next render
LateEvents == 2

\* Caps of the counters the code never bounds.
MaxElapsed == 1

MaxClicks == 2
\* setItem calls in flight at once
MaxWrites == 2

\* The tanks whose buttons the user presses.
PressedIds == {3}

Ids == 1..COUNTER_COUNT

---------------------------------------------------------------------------
(* number | null *)

Null == {}

Some(n) == {n}

ValueOf(opt) == CHOOSE n \in opt : TRUE

---------------------------------------------------------------------------
(* JSON values, as JSON.parse returns them *)

JUndefined == [t |-> "undefined", v |-> 0]

JNull == [t |-> "null", v |-> 0]

JNum(n) == [t |-> "number", v |-> n]

JBool(b) == [t |-> "boolean", v |-> b]

JStr(s) == [t |-> "string", v |-> s]

JArr(seq) == [t |-> "array", v |-> seq]

JObj(f) == [t |-> "object", v |-> f]

\* typeof j
TypeOf(j) == IF j.t \in {"null", "array"} THEN "object" ELSE j.t

\* j.field for a non-null parsed value (undefined when absent)
Get(j, field) ==
    IF j.t = "object" /\ field \in DOMAIN j.v THEN j.v[field] ELSE JUndefined

\* JSON.stringify of number | null
OptToJson(opt) == IF opt = Null THEN JNull ELSE JNum(ValueOf(opt))

---------------------------------------------------------------------------
(* Counters *)

InitialCounter(id) ==
    [id |-> id, elapsed |-> 0, isRunning |-> FALSE, isEmpty |-> TRUE,
     startCount |-> 0, lastPauseTimestamp |-> Null, filterClicks |-> 0]

createInitialCounters == [id \in Ids |-> InitialCounter(id)]

isAnyCounterRunning(cs) == \E id \in Ids : cs[id].isRunning

\* The engine's five cells as one value.
Snapshot(ge, gr, cs, hyd, fse) ==
    [globalElapsed |-> ge, globalRunning |-> gr, counters |-> cs,
     isHydrated |-> hyd, filterStartEvents |-> fse]

Current == Snapshot(globalElapsed, globalRunning, counters, isHydrated,
                    filterStartEvents)

---------------------------------------------------------------------------
(* Persistence: JSON.stringify(payload) and its validation on the way back *)

CounterToJson(c) ==
    JObj([id |-> JNum(c.id), elapsed |-> JNum(c.elapsed),
          isRunning |-> JBool(c.isRunning), isEmpty |-> JBool(c.isEmpty),
          startCount |-> JNum(c.startCount),
          lastPauseTimestamp |-> OptToJson(c.lastPauseTimestamp),
          filterClicks |-> JNum(c.filterClicks)])

\* Mutant: the payload of the earlier revision, without filterStartEvents
\* (part_000:181-185).
PayloadToJson_WithoutFilterStartEvents(s) ==
    JObj([globalElapsed |-> JNum(s.globalElapsed),
          globalRunning |-> JBool(s.globalRunning),
          counters |-> JArr([i \in 1..COUNTER_COUNT |-> CounterToJson(s.counters[i])])])

PayloadToJson(s) ==
    JObj([globalElapsed |-> JNum(s.globalElapsed),
          globalRunning |-> JBool(s.globalRunning),
          counters |-> JArr([i \in 1..COUNTER_COUNT |-> CounterToJson(s.counters[i])]),
          filterStartEvents |-> JNum(s.filterStartEvents)])

Absent == [kind |-> "absent", value |-> JUndefined]

Unparsable == [kind |-> "unparsable", value |-> JUndefined]

Stored(j) == [kind |-> "json", value |-> j]

\* typeof x === "number" && x >= 0 ? x : fallback
NumberAtLeastZeroOr(j, fallback) ==
    IF TypeOf(j) = "number" /\ j.v >= 0 THEN j.v ELSE fallback

\* typeof x === "number" ? x : fallback
NumberOr(j, fallback) == IF TypeOf(j) = "number" THEN j.v ELSE fallback

\* typeof x === "boolean" ? x : fallback
BooleanOr(j, fallback) == IF TypeOf(j) = "boolean" THEN j.v ELSE fallback

\* typeof persisted.lastPauseTimestamp === "number" ? ... : initial...
TimestampOr(j, fallback) == IF TypeOf(j) = "number" THEN Some(j.v) ELSE fallback

\* parsed.counters.find((item) => item.id === initial.id)
MatchingItems(arr, id) ==
    {i \in 1..Len(arr) : Get(arr[i], "id").t = "number" /\ Get(arr[i], "id").v = id}

FindPersisted(arr, id) ==
    IF MatchingItems(arr, id) = {} THEN JUndefined
    ELSE arr[CHOOSE i \in MatchingItems(arr, id) :
                 \A k \in MatchingItems(arr, id) : i <= k]

\* item.id on a null item throws a TypeError: find reaches the item when no
\* earlier item has the id.
FindThrows(arr, id) ==
    \E i \in 1..Len(arr) :
        /\ arr[i].t = "null"
        /\ \A k \in 1..(i - 1) : k \notin MatchingItems(arr, id)

HydrateCounter(initial, persisted) ==
    IF persisted.t = "undefined" THEN initial
    ELSE [initial EXCEPT
            !.elapsed = NumberAtLeastZeroOr(Get(persisted, "elapsed"), initial.elapsed),
            !.isRunning = BooleanOr(Get(persisted, "isRunning"), initial.isRunning),
            !.isEmpty = BooleanOr(Get(persisted, "isEmpty"), initial.isEmpty),
            !.startCount =
                NumberAtLeastZeroOr(Get(persisted, "startCount"), initial.startCount),
            !.lastPauseTimestamp =
                TimestampOr(Get(persisted, "lastPauseTimestamp"),
                            initial.lastPauseTimestamp),
            !.filterClicks =
                NumberAtLeastZeroOr(Get(persisted, "filterClicks"),
                                    initial.filterClicks)]

\* Mutant: the stored array replaces the counters (setCounters(parsed.counters)
\* with the fields validated).
HydrateCounters_Replace(current, j) ==
    IF j.t = "array"
    THEN [i \in 1..Len(j.v) |->
            HydrateCounter([InitialCounter(i) EXCEPT
                               !.id = NumberOr(Get(j.v[i], "id"), i)],
                           j.v[i])]
    ELSE current

HydrateCounters(current, j) ==
    IF j.t = "array"
    THEN [id \in Ids |-> HydrateCounter(current[id], FindPersisted(j.v, id))]
    ELSE current

HydrateGlobalElapsed(current, j) == NumberOr(j, current)

HydrateGlobalRunning(current, j) == BooleanOr(j, current)

HydrateFilterStartEvents(current, j) == NumberAtLeastZeroOr(j, current)

\* if (stored) { parsed = JSON.parse(stored); ... }  A missing item, an
\* unparsable text (JSON.parse throws) and the text "null" (the first
\* property read throws) all leave the cells as they are.
Hydrated(s, st) ==
    IF st.kind = "json" /\ st.value.t # "null"
    THEN Snapshot(HydrateGlobalElapsed(s.globalElapsed, Get(st.value, "globalElapsed")),
                  HydrateGlobalRunning(s.globalRunning, Get(st.value, "globalRunning")),
                  HydrateCounters(s.counters, Get(st.value, "counters")),
                  TRUE,
                  HydrateFilterStartEvents(s.filterStartEvents,
                                           Get(st.value, "filterStartEvents")))
    ELSE [s EXCEPT !.isHydrated = TRUE]

\* The setCounters updater runs when React renders, outside the try block of
\* the storage read: what find throws there is thrown by the render.
HydrationThrows(st) ==
    /\ st.kind = "json" /\ st.value.t # "null"
    /\ Get(st.value, "counters").t = "array"
    /\ \E id \in Ids : FindThrows(Get(st.value, "counters").v, id)

---------------------------------------------------------------------------
(* What the store may hold at process start *)

\* A snapshot the program wrote itself: alarm one tick away, tank 1 started.
SelfWritten ==
    Stored(PayloadToJson(
        Snapshot(GLOBAL_ALARM_INTERVAL_SECONDS - 1, TRUE,
                 [createInitialCounters EXCEPT
                    ![1] = [@ EXCEPT !.elapsed = 0, !.isRunning = TRUE,
                                     !.isEmpty = FALSE, !.filterClicks = 1]],
                 TRUE, 1)))

\* Every field present, every field of the wrong type or out of range.
InvalidFields ==
    Stored(JObj([globalElapsed |-> JNum(-1),
                 globalRunning |-> JStr("true"),
                 counters |-> JArr(<<
                    JObj([id |-> JNum(1), elapsed |-> JNum(-1),
                          isRunning |-> JNum(1), isEmpty |-> JStr("false"),
                          startCount |-> JNum(-1),
                          lastPauseTimestamp |-> JNum(0 - CLOCK_STEP_MS),
                          filterClicks |-> JNum(-1)])>>),
                 filterStartEvents |-> JNum(-1)]))

\* Well-typed, non-negative values that no run of the program writes.
OutOfRange ==
    Stored(JObj([globalElapsed |-> JNum(GLOBAL_ALARM_INTERVAL_SECONDS + 1),
                 globalRunning |-> JBool(TRUE),
                 counters |-> JArr(<<
                    JObj([id |-> JNum(1), isRunning |-> JBool(TRUE),
                          isEmpty |-> JBool(TRUE)]),
                    JObj([id |-> JNum(1), elapsed |-> JNum(1)]),
                    JObj([id |-> JNum(COUNTER_COUNT + 1), elapsed |-> JNum(1),
                          isRunning |-> JBool(TRUE)])>>),
                 filterStartEvents |-> JNum(2)]))

\* A snapshot of the earlier revision (part_000:20-32): no lastPauseTimestamp,
\* no filterClicks, no filterStartEvents.
EarlierRevision ==
    Stored(JObj([globalElapsed |-> JNum(1),
                 globalRunning |-> JBool(TRUE),
                 counters |-> JArr(<<
                    JObj([id |-> JNum(3), elapsed |-> JNum(1),
                          isRunning |-> JBool(FALSE), isEmpty |-> JBool(FALSE),
                          startCount |-> JNum(1)])>>)]))

\* A counters array with an entry that is not an object.
NullCounterItem ==
    Stored(JObj([globalRunning |-> JBool(TRUE),
                 counters |-> JArr(<<JObj([id |-> JNum(1), elapsed |-> JNum(1)]),
                                     JNull>>)]))

BootStores ==
    <<Absent, Unparsable, Stored(JNull), SelfWritten, InvalidFields, OutOfRange,
      EarlierRevision, NullCounterItem>>

---------------------------------------------------------------------------
(* Transition functions of the handlers, updaters and effects *)

\* setGlobalElapsed((prev) => prev + 1 >= LIMIT ? LIMIT : prev + 1)
NextGlobalElapsed(prev) ==
    IF prev + 1 >= GLOBAL_ALARM_INTERVAL_SECONDS
    THEN GLOBAL_ALARM_INTERVAL_SECONDS
    ELSE prev + 1

\* Mutant: the tick advances every counter, running or not.
TickedCounter_All(counter) ==
    [counter EXCEPT !.elapsed = counter.elapsed + 1, !.isEmpty = FALSE]

\* prev.map((counter) => counter.isRunning ? {...counter, elapsed + 1, isEmpty: false} : counter)
TickedCounter(counter) ==
    IF ~counter.isRunning THEN counter
    ELSE [counter EXCEPT !.elapsed = counter.elapsed + 1, !.isEmpty = FALSE]

\* The interval effects run only if (isHydrated && globalRunning) resp.
\* (isHydrated && isAnyCounterRunning), as of the last render.
GlobalTimerActive(v) == v.isHydrated /\ v.globalRunning

CounterTimerActive(v) == v.isHydrated /\ isAnyCounterRunning(v.counters)

\* Mutant: the alarm effect returns early at the interval itself (<= for <).
AlarmDue_Strict(v) ==
    /\ v.isHydrated /\ v.globalRunning
    /\ ~(v.globalElapsed <= GLOBAL_ALARM_INTERVAL_SECONDS)

\* The alarm effect's two early returns.
AlarmDue(v) ==
    /\ v.isHydrated /\ v.globalRunning
    /\ ~(v.globalElapsed < GLOBAL_ALARM_INTERVAL_SECONDS)

AlarmDepsChanged(old, new) ==
    <<old.globalElapsed, old.globalRunning, old.isHydrated>>
        # <<new.globalElapsed, new.globalRunning, new.isHydrated>>

\* The persist effect's early return and its dependency list.
PersistDue(old, new) ==
    /\ new.isHydrated
    /\ <<old.globalElapsed, old.globalRunning, old.counters,
         old.filterStartEvents, old.isHydrated>>
         # <<new.globalElapsed, new.globalRunning, new.counters,
             new.filterStartEvents, new.isHydrated>>

\* Mutant: the handler lacks the globalRunning guard.
ToggleAccepted_Always(v) == TRUE

\* if (!globalRunning) { Alert.alert("Service inactif", ...); return; }
ToggleAccepted(v) == v.globalRunning

\* Mutant: the resume delay is exclusive (> for >=).
AllowFilterIncrement_Exclusive(target, t) ==
    /\ ~target.isRunning
    /\ \/ target.isEmpty
       \/ /\ target.lastPauseTimestamp # Null
          /\ t - ValueOf(target.lastPauseTimestamp) > FILTER_RESUME_DELAY_MS

\* allowFilterIncrementPrecomputed, from the render-time target and Date.now()
AllowFilterIncrement(target, t) ==
    /\ ~target.isRunning
    /\ \/ target.isEmpty
       \/ /\ target.lastPauseTimestamp # Null
          /\ t - ValueOf(target.lastPauseTimestamp) >= FILTER_RESUME_DELAY_MS

\* Mutant: a start leaves isEmpty as it was.
ToggledCounter_KeepsEmpty(counter, allow, t) ==
    IF counter.isRunning
    THEN [counter EXCEPT !.isRunning = FALSE, !.lastPauseTimestamp = Some(t)]
    ELSE [counter EXCEPT !.isRunning = TRUE, !.startCount = 0,
                         !.lastPauseTimestamp = Null,
                         !.filterClicks = IF allow THEN counter.filterClicks + 1
                                          ELSE counter.filterClicks]

\* The setCounters updater of handleToggleCounter, for the counter with this id.
ToggledCounter(counter, allow, t) ==
    IF counter.isRunning
    THEN [counter EXCEPT !.isRunning = FALSE, !.lastPauseTimestamp = Some(t)]
    ELSE [counter EXCEPT !.isRunning = TRUE, !.isEmpty = FALSE, !.startCount = 0,
                         !.lastPauseTimestamp = Null,
                         !.filterClicks = IF allow THEN counter.filterClicks + 1
                                          ELSE counter.filterClicks]

\* Mutant: the accumulator is not wrapped when the alert fires.
NextFilterStartEvents_NoWrap(prev) == prev + 1

\* The setFilterStartEvents updater: next >= 2 fires the alert and returns 0.
FilterAlertDue(prev) == prev + 1 >= 2

NextFilterStartEvents(prev) == IF FilterAlertDue(prev) THEN 0 ELSE prev + 1

\* Mutant: the clear of the earlier revision, which has no filterClicks and no
\* lastPauseTimestamp to reset (part_000:351-360).
ClearedCounter_EarlierRevision(counter) ==
    [counter EXCEPT !.elapsed = 0, !.isRunning = FALSE, !.isEmpty = TRUE]

\* The setCounters updater of handleClearCounter, for the counter with this id.
ClearedCounter(counter) ==
    [counter EXCEPT !.elapsed = 0, !.isRunning = FALSE, !.isEmpty = TRUE,
                    !.startCount = 0, !.lastPauseTimestamp = Null,
                    !.filterClicks = 0]

\* Calls made by triggerFilterAlert and by the alarm effect, in order.
triggerFilterAlert == <<"vibrate_filter", "playFilterSound", "Alert_filter">>

\* Mutant: the alarm effect presents the dialog before anything else.
AlarmSequence_DialogFirst ==
    <<"Alert_alarm", "vibrate_alarm", "playAlarmSound", "setGlobalElapsed">>

AlarmSequence ==
    <<"vibrate_alarm", "playAlarmSound", "setGlobalElapsed", "Alert_alarm">>

\* How a call to the sound or vibration device can end: it works, it fails
\* (device busy, permission denied), or it never completes.
DispatchOutcomes == {"ok", "fails", "pending"}

\* Mutant: the handler awaits the sound call and does not catch its failure.
DispatchReturns_Awaited(outcome) == outcome = "ok"

\* Whether control comes back to the caller of Vibration.vibrate(...),
\* play...Sound() and stop...Sound().catch(...): vibrate hands the pattern to
\* the native side and returns; the sound functions are async functions
\* called without await, and they catch what their awaits throw.
DispatchReturns(outcome) == TRUE

\* An error thrown while HomeScreen renders: the component is unmounted, none
\* of the pending state updates is committed and no effect or handler of it
\* runs again.
RenderError == <<"render_error">>

Crashed == fx = RenderError

---------------------------------------------------------------------------
(* Sounds: alarmSoundRef and filterSoundRef, the Audio.Sound objects, and the
   calls of play...Sound / stop...Sound that are suspended at an await.  An
   async function runs up to its first pending await when it is called; each
   later step of it is the completion of the call it awaits. *)

\* Audio.Sound objects created in one run at most
MaxSounds == 2

\* sound functions suspended at once at most
MaxSoundCalls == 2

Channels == {"alarm", "filter"}

\* The sounds are not modelled: the sound calls of a step appear in fx only.
NoAudio ==
    [tracked |-> FALSE, ref |-> [ch \in Channels |-> 0], sounds |-> <<>>,
     calls |-> <<>>]

\* useRef<Audio.Sound | null>(null), no sound created, no call in flight
Silence == [NoAudio EXCEPT !.tracked = TRUE]

\* stop...Sound(): const sound = ref.current; if (!sound) return; then
\* sound.stopAsync() is awaited.
StopCalled(a, ch) ==
    IF a.ref[ch] = 0 THEN a
    ELSE [a EXCEPT !.calls = Append(@, [fn |-> "stop", ch |-> ch,
                                        await |-> "stopAsync",
                                        sound |-> a.ref[ch]])]

\* play...Sound(): await stop...Sound() first.  With no handle stored the
\* stop returns at once and createAsync is the first pending await.
PlayCalled(a, ch) ==
    IF a.ref[ch] = 0
    THEN [a EXCEPT !.calls = Append(@, [fn |-> "play", ch |-> ch,
                                        await |-> "createAsync", sound |-> 0])]
    ELSE [a EXCEPT !.calls = Append(@, [fn |-> "play", ch |-> ch,
                                        await |-> "stopAsync",
                                        sound |-> a.ref[ch]])]

AudioCall(a, call) ==
    CASE call = "playAlarmSound" -> PlayCalled(a, "alarm")
      [] call = "playFilterSound" -> PlayCalled(a, "filter")
      [] call = "stopAlarmSound" -> StopCalled(a, "alarm")
      [] call = "stopFilterSound" -> StopCalled(a, "filter")
      [] OTHER -> a

RECURSIVE AudioCalls(_, _)
\* The sound functions among the calls of one step, called in order.
AudioCalls(a, calls) ==
    IF ~a.tracked \/ calls = <<>> THEN a
    ELSE AudioCalls(AudioCall(a, Head(calls)), Tail(calls))

\* Sounds that exist or that a suspended play...Sound will still create.
SoundsPromised(a) ==
    Len(a.sounds)
      + Cardinality({i \in DOMAIN a.calls :
                        /\ a.calls[i].fn = "play"
                        /\ a.calls[i].await \in {"stopAsync", "unloadAsync",
                                                 "createAsync"}})

\* The step is explored while its sound calls stay within the two bounds.
AudioRoom(a, calls) ==
    IF ~a.tracked THEN TRUE
    ELSE /\ Len(AudioCalls(a, calls).calls) <= MaxSoundCalls
         /\ SoundsPromised(AudioCalls(a, calls)) <= MaxSounds

WithoutCall(a, i) ==
    [a EXCEPT !.calls = [k \in 1..(Len(a.calls) - 1) |->
                            IF k < i THEN a.calls[k] ELSE a.calls[k + 1]]]

\* The call awaited by the suspended function i completes and the function
\* runs on to its next await or to its end.  stopAsync, setVolumeAsync and
\* playAsync throw on an unloaded sound; stop...Sound ignores the error,
\* play...Sound ends in its catch block.
SoundCallCompleted(a, i) ==
    LET c == a.calls[i] IN
    CASE c.await = "stopAsync" ->
            [a EXCEPT !.sounds[c.sound].st =
                          IF @ = "unloaded" THEN @ ELSE "stopped",
                      !.calls[i].await = "unloadAsync"]
      [] c.await = "unloadAsync" ->
            IF c.fn = "stop"
            THEN WithoutCall([a EXCEPT !.sounds[c.sound].st = "unloaded",
                                       !.ref[c.ch] = 0], i)
            ELSE [a EXCEPT !.sounds[c.sound].st = "unloaded",
                           !.ref[c.ch] = 0,
                           !.calls[i].await = "createAsync",
                           !.calls[i].sound = 0]
      [] c.await = "createAsync" ->
            [a EXCEPT !.sounds = Append(@, [ch |-> c.ch, st |-> "playing"]),
                      !.ref[c.ch] = Len(a.sounds) + 1,
                      !.calls[i].await = "setVolumeAsync",
                      !.calls[i].sound = Len(a.sounds) + 1]
      [] c.await = "setVolumeAsync" ->
            IF a.sounds[c.sound].st = "unloaded" THEN WithoutCall(a, i)
            ELSE [a EXCEPT !.calls[i].await = "playAsync"]
      [] c.await = "playAsync" ->
            IF a.sounds[c.sound].st = "unloaded" THEN WithoutCall(a, i)
            ELSE WithoutCall([a EXCEPT !.sounds[c.sound].st = "playing"], i)

\* A looping sound of the channel is audible.
SoundPlaying(a, ch) ==
    \E k \in DOMAIN a.sounds : a.sounds[k].ch = ch /\ a.sounds[k].st = "playing"

---------------------------------------------------------------------------
(* Initial state: the component has mounted, the storage read is in flight *)

MountedWith(stores, outcomes) ==
    /\ globalElapsed = 0
    /\ globalRunning = FALSE
    /\ counters = createInitialCounters
    /\ isHydrated = FALSE
    /\ filterStartEvents = 0
    /\ view = Snapshot(0, FALSE, createInitialCounters, FALSE, 0)
    /\ stale = 0
    /\ store \in stores
    /\ now = BootTime
    /\ activatePrompt = FALSE
    /\ resetPrompt = FALSE
    /\ alarmDialog = FALSE
    /\ filterDialog = FALSE
    /\ fx = <<>>
    /\ device \in outcomes
    /\ writes = <<>>
    /\ audio = NoAudio

Init == MountedWith({BootStores[i] : i \in DOMAIN BootStores}, {"ok"})

\* An event handled before the next render, explored while fewer than max
\* events are unrendered.
EventWithin(max) == stale < max /\ stale' = stale + 1

Event == EventWithin(MaxStale)

dialogs == <<activatePrompt, resetPrompt, alarmDialog, filterDialog>>

\* Alert.alert dialogs are modal: the screen's buttons cannot be pressed while
\* one is open.
ScreenPressable ==
    ~activatePrompt /\ ~resetPrompt /\ ~alarmDialog /\ ~filterDialog

---------------------------------------------------------------------------
(* Rehydration: the continuation of AsyncStorage.getItem *)

Hydrate ==
    /\ ~Crashed
    /\ UNCHANGED <<device, writes, audio>>
    /\ ~isHydrated
    /\ Event
    /\ IF HydrationThrows(store)
       THEN /\ fx' = RenderError
            /\ UNCHANGED engine
       ELSE /\ LET h == Hydrated(Current, store) IN
                 /\ globalElapsed' = h.globalElapsed
                 /\ globalRunning' = h.globalRunning
                 /\ counters' = h.counters
                 /\ filterStartEvents' = h.filterStartEvents
                 /\ isHydrated' = h.isHydrated
            /\ fx' = <<>>
    /\ UNCHANGED <<view, store, now, dialogs>>

(* Render: commit the latest values, then run the effects whose dependencies
   changed: persist, (re)subscribe the two intervals, alarm. *)

\* In RenderCommit(TRUE) the setItem of the persist effect has completed when
\* the step ends; in RenderCommit(FALSE) it is only issued.
RenderCommit(written) ==
    /\ ~Crashed
    /\ UNCHANGED device
    /\ stale > 0 \/ Current # view
    /\ view' = Current
    /\ stale' = 0
    /\ IF ~PersistDue(view, Current) THEN UNCHANGED <<store, writes>>
       ELSE IF written
            THEN store' = Stored(PayloadToJson(Current)) /\ UNCHANGED writes
            ELSE /\ Len(writes) < MaxWrites
                 /\ writes' = Append(writes, PayloadToJson(Current))
                 /\ UNCHANGED store
    /\ IF AlarmDepsChanged(view, Current) /\ AlarmDue(Current)
       THEN /\ DispatchReturns(device)
            /\ globalElapsed' = 0
            /\ alarmDialog' = TRUE
            /\ fx' = (IF PersistDue(view, Current) THEN <<"setItem">> ELSE <<>>)
                        \o AlarmSequence
       ELSE /\ UNCHANGED <<globalElapsed, alarmDialog>>
            /\ fx' = IF PersistDue(view, Current) THEN <<"setItem">> ELSE <<>>
    /\ UNCHANGED <<globalRunning, counters, isHydrated, filterStartEvents, now, activatePrompt, resetPrompt, filterDialog>>
    /\ AudioRoom(audio, fx')
    /\ audio' = AudioCalls(audio, fx')

Render == RenderCommit(TRUE)

---------------------------------------------------------------------------
(* Interval callbacks *)

\* The global interval callback, explored while fewer than max events are
\* unrendered.
GlobalTickWithin(max) ==
    /\ ~Crashed
    /\ UNCHANGED <<device, writes, audio>>
    /\ GlobalTimerActive(view)
    /\ EventWithin(max)
    /\ globalElapsed' = NextGlobalElapsed(globalElapsed)
    /\ fx' = <<>>
    /\ UNCHANGED <<globalRunning, counters, isHydrated, filterStartEvents, view,
                   store, now, dialogs>>

GlobalTick == GlobalTickWithin(MaxStale)

\* The counter interval callback, explored while no running counter has
\* reached max seconds.
CounterTickUpTo(max) ==
    /\ ~Crashed
    /\ UNCHANGED <<device, writes, audio>>
    /\ CounterTimerActive(view)
    /\ \A id \in Ids : counters[id].isRunning => counters[id].elapsed < max
    /\ Event
    /\ counters' = [id \in Ids |-> TickedCounter(counters[id])]
    /\ fx' = <<>>
    /\ UNCHANGED <<globalElapsed, globalRunning, isHydrated, filterStartEvents,
                   view, store, now, dialogs>>

CounterTick == CounterTickUpTo(MaxElapsed)

AdvanceClock ==
    /\ ~Crashed
    /\ UNCHANGED <<device, writes, audio>>
    /\ now < BootTime + MaxClockSteps * CLOCK_STEP_MS
    /\ now' = now + CLOCK_STEP_MS
    /\ fx' = <<>>
    /\ UNCHANGED <<engine, view, stale, store, dialogs>>

---------------------------------------------------------------------------
(* User intents *)

handleActivateGlobal ==
    /\ ~Crashed
    /\ UNCHANGED <<device, writes, audio>>
    /\ ScreenPressable
    /\ ~view.globalRunning
    /\ activatePrompt' = TRUE
    /\ fx' = <<>>
    /\ UNCHANGED <<engine, view, stale, store, now, resetPrompt,
                   alarmDialog, filterDialog>>

ConfirmActivate ==
    /\ ~Crashed
    /\ UNCHANGED <<device, writes, audio>>
    /\ activatePrompt
    /\ Event
    /\ globalElapsed' = 0
    /\ globalRunning' = TRUE
    /\ activatePrompt' = FALSE
    /\ fx' = <<>>
    /\ UNCHANGED <<counters, isHydrated, filterStartEvents, view, store, now, resetPrompt, alarmDialog, filterDialog>>

DeclineActivate ==
    /\ ~Crashed
    /\ UNCHANGED <<device, writes, audio>>
    /\ activatePrompt
    /\ activatePrompt' = FALSE
    /\ fx' = <<>>
    /\ UNCHANGED <<engine, view, stale, store, now, resetPrompt,
                   alarmDialog, filterDialog>>

handleConfirmResetAll ==
    /\ ~Crashed
    /\ UNCHANGED <<device, writes, audio>>
    /\ ScreenPressable
    /\ resetPrompt' = TRUE
    /\ fx' = <<>>
    /\ UNCHANGED <<engine, view, stale, store, now, activatePrompt,
                   alarmDialog, filterDialog>>

\* Mutant: reset-all as in the earlier revision, which has no filter accumulator
\* to zero (part_000:293-298).
ConfirmResetAll_KeepsFilterEvents ==
    /\ ~Crashed
    /\ UNCHANGED <<device, writes>>
    /\ resetPrompt
    /\ Event
    /\ DispatchReturns(device)
    /\ fx' = <<"stopAlarmSound", "stopFilterSound">>
    /\ globalRunning' = FALSE
    /\ globalElapsed' = 0
    /\ counters' = createInitialCounters
    /\ resetPrompt' = FALSE
    /\ UNCHANGED <<isHydrated, filterStartEvents, view, store, now,
                   activatePrompt, alarmDialog, filterDialog>>
    /\ AudioRoom(audio, fx')
    /\ audio' = AudioCalls(audio, fx')

ConfirmResetAll ==
    /\ ~Crashed
    /\ UNCHANGED <<device, writes>>
    /\ resetPrompt
    /\ Event
    /\ DispatchReturns(device)
    /\ fx' = <<"stopAlarmSound", "stopFilterSound">>
    /\ globalRunning' = FALSE
    /\ globalElapsed' = 0
    /\ counters' = createInitialCounters
    /\ filterStartEvents' = 0
    /\ resetPrompt' = FALSE
    /\ UNCHANGED <<isHydrated, view, store, now, activatePrompt,
                   alarmDialog, filterDialog>>
    /\ AudioRoom(audio, fx')
    /\ audio' = AudioCalls(audio, fx')

CancelResetAll ==
    /\ ~Crashed
    /\ UNCHANGED <<device, writes, audio>>
    /\ resetPrompt
    /\ resetPrompt' = FALSE
    /\ fx' = <<>>
    /\ UNCHANGED <<engine, view, stale, store, now, activatePrompt,
                   alarmDialog, filterDialog>>

handleToggleCounterWithin(id, max) ==
    /\ ~Crashed
    /\ UNCHANGED <<device, writes>>
    /\ ScreenPressable
    /\ EventWithin(max)
    /\ IF ~ToggleAccepted(view)
       THEN /\ fx' = <<"Alert_inactive">>
            /\ UNCHANGED <<counters, filterStartEvents, filterDialog>>
       ELSE LET allow == AllowFilterIncrement(view.counters[id], now) IN
            /\ (allow /\ ~counters[id].isRunning) =>
                    counters[id].filterClicks < MaxClicks
            /\ counters' = [counters EXCEPT
                              ![id] = ToggledCounter(counters[id], allow, now)]
            /\ IF allow
               THEN /\ FilterAlertDue(filterStartEvents) => DispatchReturns(device)
                    /\ filterStartEvents' = NextFilterStartEvents(filterStartEvents)
                    /\ fx' = IF FilterAlertDue(filterStartEvents)
                             THEN triggerFilterAlert ELSE <<>>
                    /\ filterDialog' = (filterDialog \/ FilterAlertDue(filterStartEvents))
               ELSE /\ fx' = <<>>
                    /\ UNCHANGED <<filterStartEvents, filterDialog>>
    /\ UNCHANGED <<globalElapsed, globalRunning, isHydrated, view, store, now, activatePrompt, resetPrompt, alarmDialog>>
    /\ AudioRoom(audio, fx')
    /\ audio' = AudioCalls(audio, fx')

handleToggleCounter(id) == handleToggleCounterWithin(id, MaxStale)

handleClearCounter(id) ==
    /\ ~Crashed
    /\ UNCHANGED <<device, writes, audio>>
    /\ ScreenPressable
    /\ Event
    /\ counters' = [counters EXCEPT ![id] = ClearedCounter(counters[id])]
    /\ fx' = <<>>
    /\ UNCHANGED <<globalElapsed, globalRunning, isHydrated, filterStartEvents,
                   view, store, now, dialogs>>

\* Mutant: the 'OK' of the earlier revision, which restarts the service and
\* resets the counters (part_000:255-262).
AcknowledgeAlarm_EarlierRevision ==
    /\ ~Crashed
    /\ UNCHANGED <<device, writes>>
    /\ alarmDialog
    /\ DispatchReturns(device)
    /\ alarmDialog' = FALSE
    /\ fx' = <<"stopAlarmSound">>
    /\ counters' = createInitialCounters
    /\ globalElapsed' = 0
    /\ globalRunning' = TRUE
    /\ UNCHANGED <<isHydrated, filterStartEvents, view, stale, store, now,
                   activatePrompt, resetPrompt, filterDialog>>
    /\ AudioRoom(audio, fx')
    /\ audio' = AudioCalls(audio, fx')

AcknowledgeAlarm ==
    /\ ~Crashed
    /\ UNCHANGED <<device, writes>>
    /\ alarmDialog
    /\ DispatchReturns(device)
    /\ alarmDialog' = FALSE
    /\ fx' = <<"stopAlarmSound">>
    /\ UNCHANGED <<engine, view, stale, store, now, activatePrompt,
                   resetPrompt, filterDialog>>
    /\ AudioRoom(audio, fx')
    /\ audio' = AudioCalls(audio, fx')

AcknowledgeFilter ==
    /\ ~Crashed
    /\ UNCHANGED <<device, writes>>
    /\ filterDialog
    /\ DispatchReturns(device)
    /\ filterDialog' = FALSE
    /\ fx' = <<"stopFilterSound">>
    /\ UNCHANGED <<engine, view, stale, store, now, activatePrompt,
                   resetPrompt, alarmDialog>>
    /\ AudioRoom(audio, fx')
    /\ audio' = AudioCalls(audio, fx')

ToggleSome == \E id \in PressedIds : handleToggleCounter(id)

ClearSome == \E id \in PressedIds : handleClearCounter(id)

Next ==
    \/ Hydrate
    \/ Render
    \/ GlobalTick
    \/ CounterTick
    \/ AdvanceClock
    \/ handleActivateGlobal
    \/ ConfirmActivate
    \/ DeclineActivate
    \/ handleConfirmResetAll
    \/ ConfirmResetAll
    \/ CancelResetAll
    \/ ToggleSome
    \/ ClearSome
    \/ AcknowledgeAlarm
    \/ AcknowledgeFilter

Spec == Init /\ [][Next]_vars

---------------------------------------------------------------------------
(* The worked scenario of tank 3: a hydrated, running service with every tank
   empty; the tank is started, ticks ScenarioTicks times, is paused, resumed
   ScenarioShortPauseMs later, paused again and resumed ScenarioLongPauseMs
   later.  The user presses once the screen shows the latest state. *)

ScenarioTank == 3

ScenarioTicks == 5

ScenarioShortPauseMs == 10 * 1000

ScenarioLongPauseMs == 31 * 1000

ScenarioInit ==
    /\ globalElapsed = 0
    /\ globalRunning = TRUE
    /\ counters = createInitialCounters
    /\ isHydrated = TRUE
    /\ filterStartEvents = 0
    /\ view = Current
    /\ stale = 0
    /\ store = Stored(PayloadToJson(Current))
    /\ now = BootTime
    /\ activatePrompt = FALSE
    /\ resetPrompt = FALSE
    /\ alarmDialog = FALSE
    /\ filterDialog = FALSE
    /\ fx = <<>>
    /\ device = "ok"
    /\ writes = <<>>
    /\ audio = NoAudio

ScenarioPaused(c) == ~c.isRunning /\ ~c.isEmpty /\ c.lastPauseTimestamp # Null

ScenarioToggle ==
    /\ stale = 0
    /\ LET c == counters[ScenarioTank] IN
         \/ c.isEmpty /\ ~c.isRunning /\ now = BootTime
         \/ /\ c.isRunning /\ c.elapsed = ScenarioTicks
            /\ now \in {BootTime, BootTime + ScenarioShortPauseMs}
         \/ /\ ScenarioPaused(c)
            /\ now - ValueOf(c.lastPauseTimestamp)
                  \in {ScenarioShortPauseMs, ScenarioLongPauseMs}
    /\ handleToggleCounter(ScenarioTank)

ScenarioClock ==
    /\ ScenarioPaused(counters[ScenarioTank])
    /\ \/ /\ counters[ScenarioTank].lastPauseTimestamp = Some(BootTime)
          /\ now = BootTime
          /\ now' = now + ScenarioShortPauseMs
       \/ /\ counters[ScenarioTank].lastPauseTimestamp
                = Some(BootTime + ScenarioShortPauseMs)
          /\ now = BootTime + ScenarioShortPauseMs
          /\ now' = now + ScenarioLongPauseMs
    /\ fx' = <<>>
    /\ UNCHANGED <<engine, view, stale, store, dialogs, device, writes, audio>>

ScenarioCounterTick == CounterTickUpTo(ScenarioTicks)

ScenarioNext ==
    \/ Render
    \/ GlobalTick
    \/ ScenarioCounterTick
    \/ ScenarioToggle
    \/ ScenarioClock
    \/ AcknowledgeAlarm
    \/ AcknowledgeFilter

SpecScenario == ScenarioInit /\ [][ScenarioNext]_vars

---------------------------------------------------------------------------
(* The same program on a device whose sound and vibration calls may fail or
   never complete *)

DispatchInit == MountedWith({Absent, SelfWritten}, DispatchOutcomes)

SpecDispatch == DispatchInit /\ [][Next]_vars

---------------------------------------------------------------------------
(* The same program with the store written asynchronously: the persist effect
   issues setItem and does not wait for an earlier one; the calls in flight
   complete one at a time, in any order. *)

RenderIssuing == RenderCommit(FALSE)

WriteCompletes ==
    /\ ~Crashed
    /\ \E i \in DOMAIN writes :
          /\ store' = Stored(writes[i])
          /\ writes' = [k \in 1..(Len(writes) - 1) |->
                            IF k < i THEN writes[k] ELSE writes[k + 1]]
    /\ fx' = <<>>
    /\ UNCHANGED <<engine, view, stale, now, dialogs, device, audio>>

WritesInit == MountedWith({Absent}, {"ok"})

WritesNext ==
    \/ Hydrate
    \/ RenderIssuing
    \/ WriteCompletes
    \/ GlobalTick
    \/ CounterTick
    \/ handleActivateGlobal
    \/ ConfirmActivate
    \/ DeclineActivate
    \/ ToggleSome
    \/ AcknowledgeAlarm

SpecWrites == WritesInit /\ [][WritesNext]_vars

---------------------------------------------------------------------------
(* The same program with a toggle button pressed up to StaleToggles times
   before the screen re-renders: every such press runs the handler of the
   last render.  The service is hydrated and running, every tank is empty. *)

StaleToggle ==
    \E id \in PressedIds : handleToggleCounterWithin(id, StaleToggles)

StaleNext ==
    \/ Render
    \/ GlobalTick
    \/ CounterTick
    \/ AdvanceClock
    \/ StaleToggle
    \/ ClearSome
    \/ AcknowledgeAlarm
    \/ AcknowledgeFilter

SpecStale == ScenarioInit /\ [][StaleNext]_vars

---------------------------------------------------------------------------
(* The same program with the sound objects modelled: a hydrated, running
   service with every tank empty and no sound loaded; the awaits of the sound
   functions complete one at a time, in any order. *)

SoundCallCompletes ==
    /\ ~Crashed
    /\ audio.tracked
    /\ \E i \in DOMAIN audio.calls : audio' = SoundCallCompleted(audio, i)
    /\ fx' = <<>>
    /\ UNCHANGED <<engine, view, stale, store, now, dialogs, device, writes>>

SoundInit ==
    /\ globalElapsed = 0
    /\ globalRunning = TRUE
    /\ counters = createInitialCounters
    /\ isHydrated = TRUE
    /\ filterStartEvents = 0
    /\ view = Current
    /\ stale = 0
    /\ store = Stored(PayloadToJson(Current))
    /\ now = BootTime
    /\ activatePrompt = FALSE
    /\ resetPrompt = FALSE
    /\ alarmDialog = FALSE
    /\ filterDialog = FALSE
    /\ fx = <<>>
    /\ device = "ok"
    /\ writes = <<>>
    /\ audio = Silence

SoundNext ==
    \/ Render
    \/ GlobalTick
    \/ ToggleSome
    \/ ClearSome
    \/ handleConfirmResetAll
    \/ ConfirmResetAll
    \/ CancelResetAll
    \/ AcknowledgeAlarm
    \/ AcknowledgeFilter
    \/ SoundCallCompletes

SpecSound == SoundInit /\ [][SoundNext]_vars

---------------------------------------------------------------------------
(* The same program with its three intervals: the global tick, the counter
   tick and the display clock (setDebugNow), whose callbacks may run after an
   intent and before the effects of the next render have re-subscribed or
   cleared the intervals; likewise a toggle button may be pressed before the
   screen has rendered the state the last intent left.  The service is hydrated and running at the start. *)

LateGlobalTick == GlobalTickWithin(LateEvents)

\* setInterval(() => setDebugNow(Date.now()), 1000), subscribed on mount for
\* good: the update only makes the screen render again.
DebugTick ==
    /\ ~Crashed
    /\ EventWithin(LateEvents)
    /\ fx' = <<>>
    /\ UNCHANGED <<engine, view, store, now, dialogs, device, writes, audio>>

LateToggle == \E id \in PressedIds : handleToggleCounterWithin(id, LateEvents)

TimersNext ==
    \/ Render
    \/ LateGlobalTick
    \/ CounterTick
    \/ DebugTick
    \/ LateToggle
    \/ handleActivateGlobal
    \/ ConfirmActivate
    \/ DeclineActivate
    \/ handleConfirmResetAll
    \/ ConfirmResetAll
    \/ CancelResetAll
    \/ AcknowledgeAlarm

SpecTimers == ScenarioInit /\ [][TimersNext]_vars

---------------------------------------------------------------------------
(* The earlier revision (src/unnamed/part_000) on the fields the two
   revisions share: what each of its callbacks and handlers makes of
   globalElapsed, globalRunning and the counters' elapsed, isRunning, isEmpty. *)

Projection(ge, gr, cs) ==
    [globalElapsed |-> ge, globalRunning |-> gr,
     counters |-> [id \in Ids |-> [elapsed |-> cs[id].elapsed,
                                   isRunning |-> cs[id].isRunning,
                                   isEmpty |-> cs[id].isEmpty]]]

Projected == Projection(globalElapsed, globalRunning, counters)

EarlierInitialCounter == [elapsed |-> 0, isRunning |-> FALSE, isEmpty |-> TRUE]

EarlierGlobalTick(p) ==
    [p EXCEPT !.globalElapsed =
                  IF @ + 1 >= GLOBAL_ALARM_INTERVAL_SECONDS
                  THEN GLOBAL_ALARM_INTERVAL_SECONDS ELSE @ + 1]

EarlierCounterTick(p) ==
    [p EXCEPT !.counters =
                  [id \in Ids |->
                      IF ~p.counters[id].isRunning THEN p.counters[id]
                      ELSE [p.counters[id] EXCEPT !.elapsed = @ + 1,
                                                  !.isEmpty = FALSE]]]

\* 'Oui' of the activation dialog
EarlierActivate(p) == [p EXCEPT !.globalElapsed = 0, !.globalRunning = TRUE]

\* 'Oui' of the reset dialog
EarlierResetAll(p) ==
    [globalElapsed |-> 0, globalRunning |-> FALSE,
     counters |-> [id \in Ids |-> EarlierInitialCounter]]

\* handleToggleCounter; gate is the globalRunning its closure holds
EarlierToggle(p, gate, id) ==
    IF ~gate THEN p
    ELSE [p EXCEPT !.counters[id] =
                      IF @.isRunning THEN [@ EXCEPT !.isRunning = FALSE]
                      ELSE [@ EXCEPT !.isRunning = TRUE, !.isEmpty = FALSE]]

EarlierClear(p, id) == [p EXCEPT !.counters[id] = EarlierInitialCounter]

\* The alarm effect: the service and every counter stop; globalElapsed stays.
EarlierAlarm(p) ==
    [p EXCEPT !.globalRunning = FALSE,
              !.counters = [id \in Ids |->
                               [p.counters[id] EXCEPT !.isRunning = FALSE]]]

\* 'OK' of the alarm dialog: the counters are reset and the service restarts.
EarlierAcknowledge(p) ==
    [globalElapsed |-> 0, globalRunning |-> TRUE,
     counters |-> [id \in Ids |-> EarlierInitialCounter]]

---------------------------------------------------------------------------
(* Properties *)

\* C1: globalElapsed stays within 0..GLOBAL_ALARM_INTERVAL_SECONDS, and a step
\* lowers it only if it is a confirmed reset-all, a confirmed activation or
\* the alarm rollover (which happens in the render that runs the alarm effect).
C1_ElapsedBoundedAndMonotone ==
    [][ /\ 0 <= globalElapsed'
        /\ globalElapsed' <= GLOBAL_ALARM_INTERVAL_SECONDS
        /\ globalElapsed' < globalElapsed =>
              (ConfirmResetAll \/ ConfirmActivate \/ Render) ]_vars

C2_AtInterval(v) ==
    v.isHydrated /\ v.globalRunning /\ v.globalElapsed >= GLOBAL_ALARM_INTERVAL_SECONDS

C2_Count(f, call) == Cardinality({i \in 1..Len(f) : f[i] = call})

C2_AlarmIssuedOnce(f) ==
    /\ C2_Count(f, "vibrate_alarm") = 1
    /\ C2_Count(f, "playAlarmSound") = 1
    /\ C2_Count(f, "Alert_alarm") = 1

C2_NoAlarmIssued(f) ==
    /\ C2_Count(f, "vibrate_alarm") = 0
    /\ C2_Count(f, "playAlarmSound") = 0
    /\ C2_Count(f, "Alert_alarm") = 0

\* C2: the step in which the rendered state comes to be hydrated, running and
\* at the interval issues vibration, looping alarm sound and dialog exactly
\* once, and no other step issues any of them; the same step takes
\* globalElapsed off the interval.
C2_AlarmExactlyOncePerCrossing ==
    [][ IF C2_AtInterval(view') /\ ~C2_AtInterval(view)
        THEN C2_AlarmIssuedOnce(fx') /\ alarmDialog' /\ globalElapsed' = 0
        ELSE C2_NoAlarmIssued(fx') ]_vars

C2_Witness ==
    /\ C2_AtInterval(view)
    /\ view.globalElapsed = GLOBAL_ALARM_INTERVAL_SECONDS
    /\ C2_AlarmIssuedOnce(fx)
    /\ alarmDialog
    /\ globalElapsed = 0
    /\ globalRunning

C4_InitialCounter(id) ==
    [id |-> id, elapsed |-> 0, isRunning |-> FALSE, isEmpty |-> TRUE,
     startCount |-> 0, lastPauseTimestamp |-> {}, filterClicks |-> 0]

C4_Canonical ==
    /\ globalRunning = FALSE
    /\ globalElapsed = 0
    /\ filterStartEvents = 0
    /\ DOMAIN counters = 1..5
    /\ \A id \in 1..5 : counters[id] = C4_InitialCounter(id)

\* C4: a confirmed reset-all yields the canonical initial snapshot whatever
\* the state before; cancelling the confirmation changes no engine cell.
C4_ResetAllCanonical ==
    [][ /\ ConfirmResetAll => C4_Canonical'
        /\ CancelResetAll => UNCHANGED engine ]_vars

\* Reset confirmed while the alarm dialog was unacknowledged and the screen
\* still showed a running service with a running tank.
C4_Witness ==
    /\ C4_Canonical
    /\ fx = <<"stopAlarmSound", "stopFilterSound">>
    /\ alarmDialog
    /\ view.globalRunning
    /\ \E id \in Ids : view.counters[id].isRunning

\* C5: a counter tick adds exactly 1 to elapsed of every counter that was
\* running and leaves every other counter, the global cells and
\* filterStartEvents as they were.
C5_CounterTickLockstep ==
    [][ CounterTick =>
          /\ \A id \in Ids :
                IF counters[id].isRunning
                THEN counters'[id].elapsed = counters[id].elapsed + 1
                ELSE counters'[id] = counters[id]
          /\ UNCHANGED <<globalElapsed, globalRunning, filterStartEvents,
                         isHydrated>> ]_vars

\* Tanks 1 and 3 both running, advanced together, beside untouched tanks.
C5_Witness ==
    /\ counters[1].isRunning /\ counters[1].elapsed = 1
    /\ counters[3].isRunning /\ counters[3].elapsed = 1
    /\ counters[2] = InitialCounter(2)
    /\ stale = 1

\* The qualifying rule as stated: the counter was EMPTY, or it was PAUSED and at
\* least 30000 ms have passed since lastPauseTimestamp.
C6_Qualifying(before, t) ==
    /\ ~before.isRunning
    /\ \/ before.isEmpty
       \/ /\ ~before.isEmpty
          /\ before.lastPauseTimestamp # {}
          /\ \A paused \in before.lastPauseTimestamp : t - paused >= 30000

C7_FilterStartEventsZeroOrOne == filterStartEvents \in {0, 1}

\* C8: no counter is isEmpty while running, and every counter satisfies exactly
\* one of isEmpty and (elapsed > 0 or isRunning).
C8_ExactlyOneOfEmptyOrActive ==
    \A id \in Ids :
        /\ ~(counters[id].isEmpty /\ counters[id].isRunning)
        /\ counters[id].isEmpty
              <=> ~(counters[id].elapsed > 0 \/ counters[id].isRunning)

C9_Issued(f, call) == \E i \in 1..Len(f) : f[i] = call

\* C9: while isHydrated is false no step changes globalElapsed or a counter's
\* elapsed by ticking, writes the store, or triggers the global alarm or the
\* filter alert.
C9_QuietUntilHydrated ==
    [][ ~isHydrated =>
          /\ (GlobalTick \/ CounterTick) =>
                /\ globalElapsed' = globalElapsed
                /\ \A id \in Ids : counters'[id].elapsed = counters[id].elapsed
          /\ store' = store
          /\ ~C9_Issued(fx', "setItem")
          /\ ~C9_Issued(fx', "vibrate_alarm")
          /\ ~C9_Issued(fx', "playAlarmSound")
          /\ ~C9_Issued(fx', "Alert_alarm")
          /\ ~C9_Issued(fx', "vibrate_filter")
          /\ ~C9_Issued(fx', "playFilterSound")
          /\ ~C9_Issued(fx', "Alert_filter") ]_vars

C10_Number(j, default) ==
    IF TypeOf(j) = "number" /\ j.v >= 0 THEN j.v ELSE default

C10_Flag(j, default) == IF TypeOf(j) = "boolean" THEN j.v ELSE default

C10_Timestamp(j, default) ==
    IF TypeOf(j) = "number" /\ j.v >= 0 THEN {j.v} ELSE default

C10_Counter(default, persisted) ==
    [default EXCEPT
        !.elapsed = C10_Number(Get(persisted, "elapsed"), default.elapsed),
        !.isRunning = C10_Flag(Get(persisted, "isRunning"), default.isRunning),
        !.isEmpty = C10_Flag(Get(persisted, "isEmpty"), default.isEmpty),
        !.startCount = C10_Number(Get(persisted, "startCount"), default.startCount),
        !.lastPauseTimestamp =
            C10_Timestamp(Get(persisted, "lastPauseTimestamp"),
                          default.lastPauseTimestamp),
        !.filterClicks =
            C10_Number(Get(persisted, "filterClicks"), default.filterClicks)]

C10_StoredCounter(id) ==
    LET arr == Get(store.value, "counters") IN
    IF arr.t = "array" THEN FindPersisted(arr.v, id) ELSE JUndefined

\* C10: rehydration sets each field to its stored value if that value passes
\* validation (a number >= 0, a boolean) and to the freshly initialised default
\* otherwise.
C10_OnlyValidatedFieldsApplied ==
    [][ Hydrate =>
          /\ globalElapsed' = C10_Number(Get(store.value, "globalElapsed"), 0)
          /\ globalRunning' = C10_Flag(Get(store.value, "globalRunning"), FALSE)
          /\ filterStartEvents' =
                C10_Number(Get(store.value, "filterStartEvents"), 0)
          /\ \A id \in Ids :
                counters'[id] = C10_Counter(createInitialCounters[id],
                                            C10_StoredCounter(id)) ]_vars

C11_Fresh == Snapshot(0, FALSE, createInitialCounters, FALSE, 0)

C11_RoundTrip(s) == Hydrated(C11_Fresh, Stored(PayloadToJson(s)))

C11_SameFields(a, b) ==
    /\ a.globalElapsed = b.globalElapsed
    /\ a.globalRunning = b.globalRunning
    /\ a.filterStartEvents = b.filterStartEvents
    /\ \A id \in 1..5 :
          /\ a.counters[id].elapsed = b.counters[id].elapsed
          /\ a.counters[id].isRunning = b.counters[id].isRunning
          /\ a.counters[id].isEmpty = b.counters[id].isEmpty
          /\ a.counters[id].filterClicks = b.counters[id].filterClicks
          /\ a.counters[id].lastPauseTimestamp = b.counters[id].lastPauseTimestamp

\* C11: the payload written for the current snapshot, rehydrated into a fresh
\* engine, gives the same globalElapsed, globalRunning, filterStartEvents and
\* counter fields; so does the payload the store holds for the snapshot it
\* was written from.
C11_PersistRehydrateRoundTrip ==
    /\ C11_SameFields(C11_RoundTrip(Current), Current)
    /\ store = Stored(PayloadToJson(view)) =>
          C11_SameFields(Hydrated(C11_Fresh, store), view)

\* The store holds the snapshot of a running service with tank 3 paused after
\* a counted start.
C11_Witness ==
    /\ isHydrated
    /\ store = Stored(PayloadToJson(Current))
    /\ globalRunning
    /\ filterStartEvents = 1
    /\ counters[3].filterClicks = 1
    /\ ~counters[3].isRunning
    /\ counters[3].lastPauseTimestamp # Null
    /\ C11_RoundTrip(Current).counters[3] = counters[3]

C12_FilterAlertCalls(f) ==
    Cardinality({i \in 1..Len(f) :
                    f[i] \in {"vibrate_filter", "playFilterSound", "Alert_filter"}})

C12_LastResume ==
    /\ ScenarioToggle
    /\ ~counters[ScenarioTank].isRunning
    /\ now = BootTime + ScenarioShortPauseMs + ScenarioLongPauseMs

\* C12: in the scenario, from the first start until the last resume tank 3
\* has filterClicks = 1 and filterStartEvents = 1 and no filter alert fires
\* (the resume ScenarioShortPauseMs after the first pause counts nothing), the
\* tank is paused at elapsed = ScenarioTicks both times, and the resume
\* ScenarioLongPauseMs after the second pause gives filterClicks = 2, fires
\* the filter alert once and leaves filterStartEvents = 0.
C12_Scenario ==
    [][ LET c == counters'[ScenarioTank] IN
        /\ (~c.isEmpty /\ now' \in {BootTime, BootTime + ScenarioShortPauseMs}) =>
              /\ c.filterClicks = 1
              /\ filterStartEvents' = 1
              /\ ~filterDialog'
        /\ ScenarioPaused(c) => c.elapsed = ScenarioTicks
        /\ IF C12_LastResume
           THEN /\ c.isRunning
                /\ c.elapsed = ScenarioTicks
                /\ c.filterClicks = 2
                /\ filterStartEvents' = 0
                /\ fx' = <<"vibrate_filter", "playFilterSound", "Alert_filter">>
                /\ filterDialog'
           ELSE C12_FilterAlertCalls(fx') = 0 ]_vars

\* The state right after the last resume.
C12_Witness ==
    /\ now = BootTime + ScenarioShortPauseMs + ScenarioLongPauseMs
    /\ counters[ScenarioTank].isRunning
    /\ counters[ScenarioTank].elapsed = ScenarioTicks
    /\ counters[ScenarioTank].filterClicks = 2
    /\ filterStartEvents = 0
    /\ view.filterStartEvents = 1
    /\ view.counters[ScenarioTank].lastPauseTimestamp
          = {BootTime + ScenarioShortPauseMs}
    /\ fx = triggerFilterAlert

\* C13: whatever the store holds, the completion of the storage read leaves
\* isHydrated = true and the component running.
C13_StartupNeverFails ==
    [][ Hydrate => (isHydrated' /\ fx' # <<"render_error">>) ]_vars

\* C14: a confirmed activation happens only while the alarm is stopped and
\* gives globalElapsed = 0 and globalRunning = true with counters and
\* filterStartEvents unchanged; opening or declining the prompt changes no
\* engine cell; no activation step lowers globalElapsed of a running alarm.
C14_ActivateOnlyWhenStopped ==
    [][ /\ ConfirmActivate =>
              /\ ~globalRunning
              /\ globalElapsed' = 0
              /\ globalRunning' = TRUE
              /\ UNCHANGED <<counters, filterStartEvents>>
        /\ (handleActivateGlobal \/ DeclineActivate) => UNCHANGED engine
        /\ (handleActivateGlobal \/ ConfirmActivate \/ DeclineActivate) =>
              (globalRunning => globalElapsed' >= globalElapsed) ]_vars

\* C15: a clear sets the pressed counter to elapsed 0, not running, empty,
\* lastPauseTimestamp null and filterClicks 0, whatever it held, and leaves the
\* other counters, filterStartEvents, globalElapsed and globalRunning as they
\* were.
C15_ClearResetsOnlyThatCounter ==
    [][ \A id \in PressedIds :
          handleClearCounter(id) =>
              /\ counters'[id].id = id
              /\ counters'[id].elapsed = 0
              /\ counters'[id].isRunning = FALSE
              /\ counters'[id].isEmpty = TRUE
              /\ counters'[id].lastPauseTimestamp = {}
              /\ counters'[id].filterClicks = 0
              /\ \A other \in Ids \ {id} : counters'[other] = counters[other]
              /\ UNCHANGED <<filterStartEvents, globalElapsed, globalRunning,
                             isHydrated>> ]_vars

\* Tank 3 cleared while it was running with a counted start and a second of
\* elapsed time, beside a running tank 1.
C15_Witness ==
    /\ counters[3] = InitialCounter(3)
    /\ view.counters[3].isRunning
    /\ view.counters[3].elapsed = 1
    /\ view.counters[3].filterClicks = 1
    /\ counters[1].isRunning
    /\ globalRunning
    /\ stale = 1

C16_Rollover == Render /\ fx' # <<>> /\ fx'[Len(fx')] = "Alert_alarm"

\* C16: the rollover sets globalElapsed to 0, leaves globalRunning true and
\* leaves counters and filterStartEvents as they were; while the alarm dialog
\* is open the two interval callbacks stay enabled and advance the alarm and
\* the running counters; the acknowledgment changes no engine cell.
C16_RolloverKeepsRunning ==
    [][ /\ C16_Rollover =>
              /\ globalElapsed' = 0
              /\ globalRunning /\ globalRunning'
              /\ UNCHANGED <<counters, filterStartEvents, isHydrated>>
        /\ (alarmDialog /\ stale < MaxStale /\ GlobalTimerActive(view)) =>
              ENABLED GlobalTick
        /\ (alarmDialog /\ GlobalTick) =>
              globalElapsed' = NextGlobalElapsed(globalElapsed)
        /\ (alarmDialog /\ CounterTick) =>
              \A id \in Ids : counters[id].isRunning =>
                                 counters'[id].elapsed = counters[id].elapsed + 1
        /\ AcknowledgeAlarm => UNCHANGED engine ]_vars

\* The alarm dialog is still open; since the rollover the alarm has ticked
\* once and the running tank 1 has just ticked.
C16_Witness ==
    /\ alarmDialog
    /\ globalRunning
    /\ globalElapsed = 1
    /\ view.globalElapsed = 1
    /\ counters[1].isRunning
    /\ counters[1].elapsed = view.counters[1].elapsed + 1
    /\ stale = 1

C17_RolloverDue ==
    ~Crashed /\ AlarmDepsChanged(view, Current) /\ AlarmDue(Current)

C17_SecondQualifyingStartDue(id) ==
    /\ ~Crashed /\ ScreenPressable /\ stale < MaxStale
    /\ view.globalRunning
    /\ AllowFilterIncrement(view.counters[id], now)
    /\ filterStartEvents = 1
    /\ counters[id].filterClicks < MaxClicks

C18_FiveCountersFixedIds ==
    /\ DOMAIN counters = 1..5
    /\ \A i \in 1..5 : counters[i].id = i

\* Rehydrated from a counters array with id 1 twice, an id beyond the last
\* tank, and ids 2 to 5 missing: the first entry for id 1 was applied.
C18_Witness ==
    /\ isHydrated
    /\ store = OutOfRange
    /\ counters[1].isEmpty /\ counters[1].isRunning /\ counters[1].elapsed = 0
    /\ \A i \in 2..5 : counters[i] = InitialCounter(i)

C19_EngineChanged ==
    <<view.globalElapsed, view.globalRunning, view.counters, view.filterStartEvents>>
        # <<globalElapsed, globalRunning, counters, filterStartEvents>>

\* C19: once hydrated, the render that follows a change of globalElapsed,
\* globalRunning, counters or filterStartEvents issues a write of the complete
\* current snapshot; and when no write is in flight and every change has been
\* rendered, the store holds the snapshot of the current engine state.
C19_StoreHoldsLatestSnapshot ==
    [][ /\ (RenderIssuing /\ isHydrated /\ C19_EngineChanged) =>
              writes' = Append(writes, PayloadToJson(Current))
        /\ (isHydrated' /\ view'.isHydrated /\ writes' = <<>> /\ view' = Current') =>
              store' = Stored(PayloadToJson(Current')) ]_vars

\* C20: in every toggle, filterStartEvents and the counter's filterClicks
\* change only if the counter goes from not running to running, and one
\* changes exactly if the other does.
C20_QualifyingAndStartOnSameState ==
    [][ \A id \in PressedIds :
          handleToggleCounterWithin(id, StaleToggles) =>
              /\ (filterStartEvents' # filterStartEvents
                    \/ counters'[id].filterClicks # counters[id].filterClicks) =>
                       (~counters[id].isRunning /\ counters'[id].isRunning)
              /\ (filterStartEvents' # filterStartEvents)
                    <=> (counters'[id].filterClicks # counters[id].filterClicks)
       ]_vars

\* C21: when no sound call is in flight and the alarm dialog has been
\* acknowledged, no alarm sound is playing; likewise for the filter dialog and
\* the filter sound; and after a confirmed reset-all, once no sound call is in
\* flight and no dialog is open, nothing is playing.
C21_SilentAfterAcknowledgment ==
    (audio.tracked /\ audio.calls = <<>>) =>
        /\ ~alarmDialog => ~SoundPlaying(audio, "alarm")
        /\ ~filterDialog => ~SoundPlaying(audio, "filter")

C22_Start(id) ==
    handleToggleCounter(id) /\ view.globalRunning /\ ~counters[id].isRunning

C22_Advanced(prev) == IF prev + 1 = 2 THEN 0 ELSE prev + 1

C22_ReturnsToZero ==
    /\ \E id \in PressedIds : handleToggleCounter(id)
    /\ filterStartEvents # 0
    /\ filterStartEvents' = 0

\* C22: a toggle that starts a counter adds 1 to its filterClicks and advances
\* filterStartEvents by 1, to 0 in place of 2, if the counter was EMPTY or was
\* PAUSED for at least 30000 ms, and changes neither otherwise; the three
\* filter alert calls are issued, once each, in the toggles that take
\* filterStartEvents back to 0 and in no other step.
C22_FilterClicksAndAlert ==
    [][ /\ \A id \in PressedIds :
              C22_Start(id) =>
                  IF C6_Qualifying(counters[id], now)
                  THEN /\ counters'[id].filterClicks = counters[id].filterClicks + 1
                       /\ filterStartEvents' = C22_Advanced(filterStartEvents)
                  ELSE /\ counters'[id].filterClicks = counters[id].filterClicks
                       /\ filterStartEvents' = filterStartEvents
        /\ IF C22_ReturnsToZero
           THEN /\ fx' = <<"vibrate_filter", "playFilterSound", "Alert_filter">>
                /\ filterDialog'
           ELSE C12_FilterAlertCalls(fx') = 0 ]_vars

\* C23: a toggle pressed while the alarm runs turns a non-running counter
\* into a running, non-empty one with lastPauseTimestamp null and the same
\* elapsed; it turns a running counter into a non-running one with
\* lastPauseTimestamp = now and the same elapsed, isEmpty and filterClicks, and
\* leaves filterStartEvents as it was; either way the other four counters,
\* globalElapsed and globalRunning stay as they were.
C23_ToggleSetsOnlyItsCounter ==
    [][ \A id \in PressedIds :
          (handleToggleCounterWithin(id, StaleToggles) /\ globalRunning
                                                       /\ view.globalRunning) =>
              /\ IF ~counters[id].isRunning
                 THEN /\ counters'[id].isRunning = TRUE
                      /\ counters'[id].isEmpty = FALSE
                      /\ counters'[id].lastPauseTimestamp = {}
                      /\ counters'[id].elapsed = counters[id].elapsed
                 ELSE /\ counters'[id].isRunning = FALSE
                      /\ counters'[id].lastPauseTimestamp = {now}
                      /\ counters'[id].elapsed = counters[id].elapsed
                      /\ counters'[id].isEmpty = counters[id].isEmpty
                      /\ counters'[id].filterClicks = counters[id].filterClicks
                      /\ filterStartEvents' = filterStartEvents
              /\ \A other \in Ids \ {id} : counters'[other] = counters[other]
              /\ globalElapsed' = globalElapsed
              /\ globalRunning' = globalRunning ]_vars

C24_Defaults == Snapshot(0, FALSE, createInitialCounters, FALSE, 0)

\* C24: when the storage read completes, the engine holds the stored snapshot
\* merged over the freshly initialised defaults, whatever the user did before.
C24_HydratedStateFromStoreOnly ==
    [][ (Hydrate /\ isHydrated') =>
            Current' = Hydrated(C24_Defaults, store) ]_vars

C25_Position(f, call) == CHOOSE i \in 1..Len(f) : f[i] = call

C25_AlarmCalls ==
    {"vibrate_alarm", "playAlarmSound", "setGlobalElapsed", "Alert_alarm"}

\* C25: a step that issues any call of the alarm issues all four, each once:
\* the vibration before the start of the alarm sound, that before the reset of
\* globalElapsed, and the dialog after all three; after the step globalElapsed
\* is 0 and the dialog is open.
C25_AlarmSideEffectsInOrder ==
    [][ (\E i \in 1..Len(fx') : fx'[i] \in C25_AlarmCalls) =>
            /\ \A call \in C25_AlarmCalls : C2_Count(fx', call) = 1
            /\ C25_Position(fx', "vibrate_alarm") < C25_Position(fx', "playAlarmSound")
            /\ C25_Position(fx', "playAlarmSound")
                  < C25_Position(fx', "setGlobalElapsed")
            /\ C25_Position(fx', "setGlobalElapsed") < C25_Position(fx', "Alert_alarm")
            /\ globalElapsed' = 0
            /\ alarmDialog' ]_vars

\* The alarm has just fired in the render that also wrote the snapshot with
\* globalElapsed at the interval.
C25_Witness ==
    /\ fx = <<"setItem", "vibrate_alarm", "playAlarmSound", "setGlobalElapsed",
              "Alert_alarm">>
    /\ view.globalElapsed = GLOBAL_ALARM_INTERVAL_SECONDS
    /\ view.globalRunning /\ view.isHydrated
    /\ globalElapsed = 0
    /\ alarmDialog

C26_AlarmFires == \E i \in 1..Len(fx') : fx'[i] = "Alert_alarm"

\* C26: while the alarm is hydrated and running and no reset-all is confirmed,
\* the ticks still due before the alarm, ALARM_INTERVAL - globalElapsed, go
\* down by exactly 1 in every global tick and change in no other step, except
\* that the alarm fires when and only when none is left and then a full
\* interval is due again, whether or not the dialog was acknowledged.
C26_AlarmAfterExactlyTheRemainingTicks ==
    [][ (isHydrated /\ globalRunning /\ ~ConfirmResetAll) =>
            /\ C26_AlarmFires =>
                  /\ globalElapsed = GLOBAL_ALARM_INTERVAL_SECONDS
                  /\ globalElapsed' = 0
            /\ (GlobalTick /\ globalElapsed < GLOBAL_ALARM_INTERVAL_SECONDS) =>
                  globalElapsed' = globalElapsed + 1
            /\ (Render /\ view'.globalElapsed = GLOBAL_ALARM_INTERVAL_SECONDS
                       /\ view.globalElapsed # GLOBAL_ALARM_INTERVAL_SECONDS) =>
                  C26_AlarmFires
            /\ ~(GlobalTick \/ C26_AlarmFires) => globalElapsed' = globalElapsed
      ]_vars

C27_Idle == ~globalRunning /\ ~isAnyCounterRunning(counters)

\* C27: a global tick changes globalElapsed only while globalRunning is true,
\* and then by +1 clamped at the interval; while the service is stopped and no
\* counter runs, no interval callback changes globalElapsed, globalRunning,
\* counters or filterStartEvents, and once the screen has rendered that state
\* neither tick interval is subscribed.
C27_TicksOnlyWhileRunning ==
    [][ /\ LateGlobalTick =>
              IF globalRunning
              THEN globalElapsed' = NextGlobalElapsed(globalElapsed)
              ELSE globalElapsed' = globalElapsed
        /\ C27_Idle =>
              /\ (LateGlobalTick \/ CounterTick \/ DebugTick) =>
                    UNCHANGED <<globalElapsed, globalRunning, counters,
                                filterStartEvents>>
              /\ (stale = 0) =>
                    (~GlobalTimerActive(view) /\ ~CounterTimerActive(view)) ]_vars

\* C28: in every reachable state a running counter implies a running global
\* alarm, and no step advances a counter's elapsed while the alarm is stopped.
C28_RunningCounterImpliesRunningAlarm ==
    [][ /\ \A id \in Ids : counters'[id].isRunning => globalRunning'
        /\ ~globalRunning =>
              \A id \in Ids : counters'[id].elapsed <= counters[id].elapsed ]_vars

C29_Paused(c) == ~c.isRunning /\ ~c.isEmpty

\* C29: after every step each counter has a lastPauseTimestamp exactly if it
\* is PAUSED, and a toggle that resumes a PAUSED counter adds a filter click
\* exactly if at least 30000 ms have passed since that timestamp.
C29_TimestampIffPaused ==
    [][ /\ \A id \in Ids :
              (counters'[id].lastPauseTimestamp # {}) <=> C29_Paused(counters'[id])
        /\ \A id \in PressedIds :
              (handleToggleCounter(id) /\ view.globalRunning
                                       /\ C29_Paused(counters[id])) =>
                  /\ counters[id].lastPauseTimestamp # {}
                  /\ (counters'[id].filterClicks = counters[id].filterClicks + 1)
                        <=> \A paused \in counters[id].lastPauseTimestamp :
                                now - paused >= 30000 ]_vars

C30_TicksAndIntentsAgree ==
    /\ GlobalTick => Projected' = EarlierGlobalTick(Projected)
    /\ CounterTick => Projected' = EarlierCounterTick(Projected)
    /\ ConfirmActivate => Projected' = EarlierActivate(Projected)
    /\ (handleActivateGlobal \/ DeclineActivate) => Projected' = Projected
    /\ ConfirmResetAll => Projected' = EarlierResetAll(Projected)
    /\ (handleConfirmResetAll \/ CancelResetAll) => Projected' = Projected
    /\ \A id \in PressedIds :
          /\ handleToggleCounter(id) =>
                Projected' = EarlierToggle(Projected, view.globalRunning, id)
          /\ handleClearCounter(id) => Projected' = EarlierClear(Projected, id)

C30_AlarmAgrees ==
    /\ Render =>
          Projected' = IF AlarmDepsChanged(view, Current) /\ AlarmDue(Current)
                       THEN EarlierAlarm(Projected) ELSE Projected
    /\ AcknowledgeAlarm => Projected' = EarlierAcknowledge(Projected)

\* C30 (as claimed): in every step of a tick, an intent, the alarm or an
\* acknowledgment the later revision changes globalElapsed, globalRunning and
\* the counters' elapsed, isRunning and isEmpty as the earlier revision does
\* from the same values.
C30_EarlierRevisionIsSubset ==
    [][ C30_TicksAndIntentsAgree /\ C30_AlarmAgrees ]_vars

\* C30 (amended): the two revisions agree on those fields in every global
\* tick, counter tick, activation, reset-all, toggle and clear; the alarm and
\* its acknowledgment are left out, where the earlier revision stops and later
\* restarts the service and the later one resets globalElapsed and goes on.
C30_RevisionsAgreeOnTicksAndIntents == [][ C30_TicksAndIntentsAgree ]_vars

\* Tank 3 has just been started from EMPTY beside a running tank 1, on a
\* running service: both revisions make it running and not empty.
C30_Witness ==
    /\ globalRunning /\ view.globalRunning
    /\ stale = 1
    /\ counters[3].isRunning /\ ~counters[3].isEmpty
    /\ view.counters[3].isEmpty /\ ~view.counters[3].isRunning
    /\ counters[1].isRunning
    /\ Projected = EarlierToggle(Projection(view.globalElapsed, view.globalRunning,
                                            view.counters), TRUE, 3)

====
